---- MODULE Spec2Model ----
(***************************************************************************)
(* A model of src/commands/Common.ts: the bounded retry driver retryUntil, *)
(* its pause helper wait, and the mailbox lookup of MailtrapApiClient that *)
(* polls with them.  One step of the model is what the code does between   *)
(* two suspension points (the await of cbToPerform(), of wait(timeout), of *)
(* a request).  Spec is one call of retryUntil on an arbitrary action;     *)
(* MailSpec is a series of lookups on one client.                          *)
(*                                                                         *)
(* JavaScript values are records [t, v]: t is the type tag and v the text  *)
(* the value carries, as a sequence of string pieces.  A JavaScript string *)
(* is modelled as the sequence of the pieces it is concatenated from, so   *)
(* that "the message contains s" is the search of a contiguous             *)
(* subsequence.                                                            *)
(***************************************************************************)
EXTENDS Integers, Sequences, FiniteSets, TLC

\* ------------------------------------------------------------------ bounds
\* Largest timesToRepeat a caller passes.
MaxLimit == 3
\* The positive timeout a caller passes, in ms.
DelayMs == 100

\* --------------------------------------------------------- program constants
\* `timesToRepeat = 3` and `timeout = 0` of the destructuring defaults.
DefaultTimesToRepeat == 3
DefaultTimeout == 0

\* ------------------------------------------------------- JavaScript values
Undefined == [t |-> "undefined", v |-> <<>>]
Null == [t |-> "null", v |-> <<>>]
False == [t |-> "boolean", v |-> <<"false">>]
True == [t |-> "boolean", v |-> <<"true">>]
\* A truthy non-boolean result, e.g. the response object of a request.
Obj == [t |-> "object", v |-> <<>>]
\* new Error(message)
NewError(message) == [t |-> "Error", v |-> message]

\* ToBoolean: what `if (x)` and `x ? a : b` test.
Truthy(x) ==
  CASE x.t \in {"undefined", "null"} -> FALSE
    [] x.t = "boolean" -> x.v = <<"true">>
    [] x.t = "string" -> x.v # <<>>
    [] OTHER -> TRUE

\* ToString: what `${x}` interpolates.
String(x) ==
  CASE x.t = "undefined" -> <<"undefined">>
    [] x.t = "null" -> <<"null">>
    [] x.t = "object" -> <<"[object Object]">>
    [] x.t = "Error" -> IF x.v = <<>> THEN <<"Error">> ELSE <<"Error: ">> \o x.v
    [] x.t \in {"TypeError", "AssertionError", "NotFoundException"} ->
         <<x.t, ": ">> \o x.v
    [] OTHER -> x.v

\* s.includes(part) on modelled strings.
Contains(s, part) ==
  \E j \in 0..(Len(s) - Len(part)) : SubSeq(s, j + 1, j + Len(part)) = part

\* ----------------------------------------------------------------- inputs
\* The actions a caller retries; cbToPerform.toString() is the source text.
Callbacks == {"probeA", "probeB"}
FunctionSource(cb) == <<"async () => ", cb, "()">>

\* What one invocation of the action can settle with.
ResolveValues == {True, Obj, False, Undefined}
RejectReasons == {NewError(<<"boom">>), NewError(<<"not found">>), Undefined}
Outcomes ==
  {[kind |-> "resolve", val |-> x] : x \in ResolveValues}
    \cup {[kind |-> "reject", val |-> x] : x \in RejectReasons}

\* A field of the options argument: omitted, or a number.
Omitted == [given |-> FALSE, n |-> 0]
Given(k) == [given |-> TRUE, n |-> k]
OptionsArgs ==
  [timesToRepeat : {Omitted} \cup {Given(k) : k \in -1..MaxLimit},
   timeout : {Omitted} \cup {Given(0), Given(DelayMs)}]

\* A destructuring without the default: the field as passed.
DestructureNoDefault(field, dflt) == field.n

\* A destructuring default: `{ field = dflt }`.
Destructure(field, dflt) == IF field.given THEN field.n ELSE dflt

VARIABLES
  pc,            \* "idle", "awaitCb", "awaitWait", "resolved", "rejected"
  cbToPerform,   \* the action argument
  options,       \* the options argument, as passed
  timesToRepeat, \* local of retryUntil
  timeout,       \* local of retryUntil
  i,             \* loop counter
  cbError,       \* `let cbError` of the loop body
  cbResult,      \* `const cbResult` of the loop body
  settled,       \* how the promise of retryUntil settled
  history,       \* the outcomes of the invocations of the action so far
  log,           \* the calls made: "cb" for cbToPerform(), "wait" for wait()
  elapsed,       \* ms spent in completed pauses
  mpc,           \* where the mailbox lookup is: "idle", "AwaitingDelivery",
                 \* "Polling", "Found", "NotFoundExhausted"
  method,        \* the method called: "id", "text" or "html"
  email,         \* argument of the lookup
  subject,       \* argument of the lookup
  messageId,     \* `let messageId` of getLatestMessageIdBySubject
  requests,      \* the HTTP requests the lookup has issued
  lastResponse,  \* the latest result of getAllMessages()
  returned,      \* how the promise of the called method settled
  calls,         \* lookups started on the client
  prev,          \* how the lookup before this one settled
  other,         \* the locals of a second, suspended call of retryUntil
  tpc,           \* where the running test or hook is
  test,          \* the test or hook that runs
  reply,         \* what the request the test awaited settled with
  ec2IpAddress,  \* `let ec2IpAddress` of the suite
  deployedInstances, \* `deployedInstances` of the hook
  verdict        \* how the test or hook ended

retryVars ==
  <<pc, cbToPerform, options, timesToRepeat, timeout, i, cbError, cbResult,
    settled, history, log, elapsed>>

mailVars ==
  <<mpc, method, email, subject, messageId, requests, lastResponse, returned,
    calls, prev>>

concVars == <<other>>

testVars == <<tpc, test, reply, ec2IpAddress, deployedInstances, verdict>>

vars == <<retryVars, mailVars, concVars, testVars>>

\* The locals of a call of retryUntil that has not started.
IdleFrame ==
  [pc |-> "idle", cbToPerform |-> "probeA",
   options |-> [timesToRepeat |-> Omitted, timeout |-> Omitted],
   timesToRepeat |-> DefaultTimesToRepeat, timeout |-> DefaultTimeout, i |-> 0,
   cbError |-> Null, cbResult |-> Undefined,
   settled |-> [kind |-> "none", val |-> Undefined],
   history |-> <<>>, log |-> <<>>, elapsed |-> 0]

Init ==
  /\ pc = "idle"
  /\ cbToPerform = "probeA"
  /\ options = [timesToRepeat |-> Omitted, timeout |-> Omitted]
  /\ timesToRepeat = DefaultTimesToRepeat
  /\ timeout = DefaultTimeout
  /\ i = 0
  /\ cbError = Null
  /\ cbResult = Undefined
  /\ settled = [kind |-> "none", val |-> Undefined]
  /\ history = <<>>
  /\ log = <<>>
  /\ elapsed = 0
  /\ mpc = "idle"
  /\ method = "id"
  /\ email = <<>>
  /\ subject = <<>>
  /\ messageId = Undefined
  /\ requests = <<>>
  /\ lastResponse = [ok |-> FALSE, data |-> <<>>]
  /\ returned = [kind |-> "none", val |-> Undefined]
  /\ calls = 0
  /\ prev = [kind |-> "none", val |-> Undefined]
  /\ other = IdleFrame
  /\ tpc = "idle"
  /\ test = "none"
  /\ reply = Undefined
  /\ ec2IpAddress = Undefined
  /\ deployedInstances = <<>>
  /\ verdict = [kind |-> "none", val |-> Undefined]

\* --------------------------------------------------------------- wait
\* The delay setTimeout applies: below 1 ms or above 2^31 - 1 it uses 1 ms.
SetTimeoutDelayIgnored(ms) == 1
SetTimeoutDelay(ms) == IF ms < 1 \/ ms > 2147483647 THEN 1 ELSE ms

\* --------------------------------------------------------- retryUntil
\* `i <= timesToRepeat`
LoopCondStrict(idx, limit) == idx < limit
LoopCondDoWhile(idx, limit) == idx <= limit \/ idx = 1
LoopCond(idx, limit) == idx <= limit

\* `i === timesToRepeat`
IsLastIteration(idx, limit) == idx = limit

\* `if (timeout)`
PauseAlways(ms) == TRUE
PauseNeeded(ms) == ms # 0

\* `return cbResult`
ReturnTrue(result) == True
ReturnValue(result) == result

\* `cbError ? `with error: ${cbError}\n` : ''`
WithErrorMsgDropped(err) == <<>>
WithErrorMsg(err) ==
  IF Truthy(err) THEN <<"with error: ">> \o String(err) \o <<"\n">> ELSE <<>>

\* The message of the error thrown on exhaustion.
ExhaustedMessage(err, cb) ==
  <<"RetryUntil failed ">> \o WithErrorMsg(err)
    \o <<"Condition wasn't successful:\n">> \o FunctionSource(cb)

\* The head of the for loop with i = idx: the body starts (cbError is reset
\* and the action invoked), or the loop ends and the function returns
\* nothing.
LoopHead(idx, limit) ==
  /\ i' = idx
  /\ cbError' = Null
  /\ IF LoopCond(idx, limit)
       THEN /\ log' = Append(log, "cb")
            /\ pc' = "awaitCb"
            /\ UNCHANGED settled
       ELSE /\ pc' = "resolved"
            /\ settled' = [kind |-> "return", val |-> Undefined]
            /\ UNCHANGED log

\* Lines 33-37 without `i += 1`.
AfterPauseNoIncrement(err) ==
  IF IsLastIteration(i, timesToRepeat)
    THEN /\ pc' = "rejected"
         /\ settled' =
              [kind |-> "throw",
               val |-> NewError(ExhaustedMessage(err, cbToPerform))]
         /\ cbError' = err
         /\ UNCHANGED <<i, log>>
    ELSE LoopHead(1, timesToRepeat)

\* Lines 33-37: the throw on the last iteration, or `i += 1` and the head.
AfterPause(err) ==
  IF IsLastIteration(i, timesToRepeat)
    THEN /\ pc' = "rejected"
         /\ settled' =
              [kind |-> "throw",
               val |-> NewError(ExhaustedMessage(err, cbToPerform))]
         /\ cbError' = err
         /\ UNCHANGED <<i, log>>
    ELSE LoopHead(i + 1, timesToRepeat)

\* Lines 29-37 with the trailing pause skipped.
ContinueSkipTrailingPause(result, err) ==
  /\ cbResult' = result
  /\ IF Truthy(result)
       THEN /\ pc' = "resolved"
            /\ settled' = [kind |-> "return", val |-> ReturnValue(result)]
            /\ cbError' = err
            /\ UNCHANGED <<i, log>>
       ELSE IF PauseNeeded(timeout) /\ ~IsLastIteration(i, timesToRepeat)
         THEN /\ pc' = "awaitWait"
              /\ log' = Append(log, "wait")
              /\ cbError' = err
              /\ UNCHANGED <<i, settled>>
         ELSE AfterPause(err)

\* Lines 29-37 with the pause taken before the result is looked at.
ContinuePauseBeforeReturn(result, err) ==
  /\ cbResult' = result
  /\ IF PauseNeeded(timeout)
       THEN /\ pc' = "awaitWait"
            /\ log' = Append(log, "wait")
            /\ cbError' = err
            /\ UNCHANGED <<i, settled>>
       ELSE IF Truthy(result)
         THEN /\ pc' = "resolved"
              /\ settled' = [kind |-> "return", val |-> ReturnValue(result)]
              /\ cbError' = err
              /\ UNCHANGED <<i, log>>
         ELSE AfterPause(err)

\* Lines 29-37, from the result of the attempt up to the next suspension.
Continue(result, err) ==
  /\ cbResult' = result
  /\ IF Truthy(result)
       THEN /\ pc' = "resolved"
            /\ settled' = [kind |-> "return", val |-> ReturnValue(result)]
            /\ cbError' = err
            /\ UNCHANGED <<i, log>>
       ELSE IF PauseNeeded(timeout)
         THEN /\ pc' = "awaitWait"
              /\ log' = Append(log, "wait")
              /\ cbError' = err
              /\ UNCHANGED <<i, settled>>
         ELSE AfterPause(err)

\* Lines 24-27 without the catch: the rejection leaves retryUntil.
OnSettledNoCatch(o) ==
  IF o.kind = "reject"
    THEN /\ pc' = "rejected"
         /\ settled' = [kind |-> "throw", val |-> o.val]
         /\ UNCHANGED <<i, cbError, cbResult, log>>
    ELSE Continue(o.val, cbError)

\* Lines 24-27: `await cbToPerform().catch((err) => { cbError = err; return
\* false; })`.
OnSettled(o) ==
  IF o.kind = "reject"
    THEN Continue(False, o.val)
    ELSE Continue(o.val, cbError)

\* Lines 17-24: the call retryUntil(cb, opts), up to its first await.
Call(cb, opts) ==
  /\ cbToPerform' = cb
  /\ options' = opts
  /\ timesToRepeat' = Destructure(opts.timesToRepeat, DefaultTimesToRepeat)
  /\ timeout' = Destructure(opts.timeout, DefaultTimeout)
  /\ LoopHead(1, Destructure(opts.timesToRepeat, DefaultTimesToRepeat))
  /\ UNCHANGED <<cbResult, history, elapsed>>

\* A caller calls retryUntil(cbToPerform, options).
retryUntil ==
  /\ pc = "idle"
  /\ \E cb \in Callbacks, opts \in OptionsArgs : Call(cb, opts)
  /\ UNCHANGED <<mailVars, concVars, testVars>>

\* The promise of cbToPerform() settles.
cbToPerformSettles ==
  /\ pc = "awaitCb"
  /\ \E o \in Outcomes :
       /\ history' = Append(history, o)
       /\ OnSettled(o)
  /\ UNCHANGED <<cbToPerform, options, timesToRepeat, timeout, elapsed>>
  /\ UNCHANGED <<mailVars, concVars, testVars>>

\* The timer of wait(timeout) fires.
waitResolves ==
  /\ pc = "awaitWait"
  /\ elapsed' = elapsed + SetTimeoutDelay(timeout)
  /\ AfterPause(cbError)
  /\ UNCHANGED <<cbToPerform, options, timesToRepeat, timeout, cbResult, history>>
  /\ UNCHANGED <<mailVars, concVars, testVars>>

Next == retryUntil \/ cbToPerformSettles \/ waitResolves

Spec == Init /\ [][Next]_vars

\* The event loop runs every settled promise's continuation and fires every
\* timer: an invocation of the action that settles, and a pause that
\* elapses, are eventually resumed from.
FairSpec ==
  Init /\ [][Next]_vars /\ WF_vars(cbToPerformSettles) /\ WF_vars(waitResolves)

\* ------------------------------------------------- two calls of retryUntil
\* Largest timesToRepeat of two calls in progress together.
ConcMaxLimit == 2

\* The options of the calls made together.
ConcOptions ==
  {[timesToRepeat |-> Given(k), timeout |-> t] :
     k \in 1..ConcMaxLimit, t \in {Omitted, Given(DelayMs)}}

\* The locals of the call that runs.
Frame ==
  [pc |-> pc, cbToPerform |-> cbToPerform, options |-> options,
   timesToRepeat |-> timesToRepeat, timeout |-> timeout, i |-> i,
   cbError |-> cbError, cbResult |-> cbResult, settled |-> settled,
   history |-> history, log |-> log, elapsed |-> elapsed]

\* `let i` (line 21) and `let cbError` (line 22) are locals of the call: the
\* call that is resumed finds its own.  The variants have one counter, or
\* one error slot, for all calls.
ResumedCounterShared(frame) == i
ResumedCounter(frame) == frame.i
ResumedError(frame) == frame.cbError

\* A caller calls retryUntil while the other call, if any, is suspended.
retryUntilTogether ==
  /\ pc = "idle"
  /\ \E cb \in Callbacks, opts \in ConcOptions : Call(cb, opts)
  /\ UNCHANGED <<mailVars, concVars, testVars>>

\* The call that runs is suspended at its await (or has settled), and the
\* event loop goes on with the other call: its caller, when it has not
\* started, or the continuation of what it awaits.
switch ==
  /\ pc # "idle"
  /\ other' = Frame
  /\ pc' = other.pc
  /\ cbToPerform' = other.cbToPerform
  /\ options' = other.options
  /\ timesToRepeat' = other.timesToRepeat
  /\ timeout' = other.timeout
  /\ i' = ResumedCounter(other)
  /\ cbError' = ResumedError(other)
  /\ cbResult' = other.cbResult
  /\ settled' = other.settled
  /\ history' = other.history
  /\ log' = other.log
  /\ elapsed' = other.elapsed
  /\ UNCHANGED <<mailVars, testVars>>

ConcNext == retryUntilTogether \/ cbToPerformSettles \/ waitResolves \/ switch

ConcSpec == Init /\ [][ConcNext]_vars

\* ------------------------------------------------------ MailtrapApiClient
\* Largest number of messages in one listing response.
MaxMsgs == 2
\* Lookups made one after the other on the same client.
MaxCalls == 2

\* `await wait(5_000)`, `timesToRepeat: 5`, `timeout: 5_000`.
GraceMs == 5000
PollTimesToRepeat == 5
PollTimeout == 5000

\* A string value.
Str(s) == [t |-> "string", v |-> s]

\* The arguments callers look up.
Emails == {<<"user@mail.io">>}
Subjects == {<<"AWS Notification Message">>, <<"AWS Notification Message", " back">>}
Methods == {"id", "text", "html"}

\* The messages the mailbox may list (IMailtrapMessage; sent_at is not read).
Messages ==
  {[id |-> <<"101">>, to_email |-> <<"user@mail.io">>, subject |-> <<"AWS Notification Message">>],
   [id |-> <<"102">>, to_email |-> <<"User <", "user@mail.io", ">">>,
    subject |-> <<"AWS Notification Message">>],
   [id |-> <<"103">>, to_email |-> <<"other@mail.io">>, subject |-> <<"AWS Notification Message">>],
   [id |-> <<"104">>, to_email |-> <<"user@mail.io">>,
    subject |-> <<"AWS Notification Message", " back">>]}

\* The listings: up to MaxMsgs different messages in any order.
Inboxes ==
  {d \in UNION {[1..n -> Messages] : n \in 0..MaxMsgs} :
     \A a, b \in 1..Len(d) : d[a] = d[b] => a = b}

\* What getAllMessages() settles with: a response, or the request fails.
ListingResults ==
  {[ok |-> TRUE, data |-> d] : d \in Inboxes} \cup {[ok |-> FALSE, data |-> <<>>]}
HttpError == NewError(<<"Request failed">>)

\* A request sent with another method.
GetAsPost(url) == [method |-> "POST", url |-> url]

\* BaseApiClient.get: the request carries method 'GET'.
Get(url) == [method |-> "GET", url |-> url]
ListingUrl == <<"/inboxes/", "${mailtrapInboxId}", "/messages">>
BodyUrl(id, variant) == ListingUrl \o <<"/">> \o String(id) \o <<"/body.", variant>>
BodyVariantTxt(m) == "txt"
BodyVariant(m) == IF m = "html" THEN "html" ELSE "txt"
\* The response of the body request of a message.
BodyResponse(id, variant) == [t |-> "object", v |-> <<"body.", variant, " of ">> \o String(id)]

\* The filter predicate of the probe.
MatchesSubjectIncludes(message, em, subj) ==
  Contains(message.to_email, em) /\ Contains(message.subject, subj)
Matches(message, em, subj) ==
  Contains(message.to_email, em) /\ message.subject = subj

\* `allInboxMessages.data.filter(...)`
Filter(data, em, subj) == SelectSeq(data, LAMBDA m : Matches(m, em, subj))

\* `filteredMessages.length === 0`
IsEmptyOrSingle(filtered) == Len(filtered) <= 1
IsEmpty(filtered) == Len(filtered) = 0

\* `filteredMessages[0]`
LastOf(filtered) == filtered[Len(filtered)]
FirstOf(filtered) == filtered[1]

\* The error the probe throws on an empty filter result.
NotFoundErrorBare(em, subj) == NewError(<<"Email was not found">>)
NotFoundError(em, subj) ==
  NewError(<<"Email sent to \"">> \o em \o <<"\" with subject \"">> \o subj
             \o <<"\" was not found in Mailtrap">>)

\* How the probe settles on a result of getAllMessages().
ProbeOutcome(res, em, subj) ==
  IF ~res.ok
    THEN [kind |-> "reject", val |-> HttpError]
    ELSE IF IsEmpty(Filter(res.data, em, subj))
      THEN [kind |-> "reject", val |-> NotFoundError(em, subj)]
      ELSE [kind |-> "resolve", val |-> True]

\* messageId after the probe: `messageId = filteredMessages[0].id` on a match.
ProbeMessageId(res, em, subj, cur) ==
  IF res.ok /\ ~IsEmpty(Filter(res.data, em, subj))
    THEN Str(FirstOf(Filter(res.data, em, subj)).id)
    ELSE cur

\* The options of the retry loop of the lookup.
PollOptionsOmitted == [timesToRepeat |-> Omitted, timeout |-> Omitted]
PollOptions ==
  [timesToRepeat |-> Given(PollTimesToRepeat), timeout |-> Given(PollTimeout)]

\* `let messageId: string;`: a new binding, whatever an earlier call left.
RetainedMessageId(cur) == cur
FreshMessageId(cur) == Undefined

\* The lookup after a step of its retryUntil call: the probe was invoked
\* again (a listing request), or retryUntil resolved (messageId is returned,
\* and the text and HTML methods request the body), or it threw.
AfterRetryStep ==
  /\ requests' =
       IF Len(log') > Len(log) /\ log'[Len(log')] = "cb"
         THEN Append(requests, Get(ListingUrl))
         ELSE IF pc' = "resolved" /\ method # "id"
           THEN Append(requests, Get(BodyUrl(messageId', BodyVariant(method))))
           ELSE requests
  /\ mpc' =
       CASE pc' = "resolved" -> "Found"
         [] pc' = "rejected" -> "NotFoundExhausted"
         [] OTHER -> "Polling"
  /\ returned' =
       CASE pc' = "resolved" /\ method = "id" -> [kind |-> "return", val |-> messageId']
         [] pc' = "rejected" -> [kind |-> "throw", val |-> settled'.val]
         [] OTHER -> returned

\* The call of retryUntil(probe, { timesToRepeat: 5, timeout: 5_000 }).
StartPolling ==
  /\ cbToPerform' = "mailProbe"
  /\ options' = PollOptions
  /\ timesToRepeat' = Destructure(PollOptions.timesToRepeat, DefaultTimesToRepeat)
  /\ timeout' = Destructure(PollOptions.timeout, DefaultTimeout)
  /\ LoopHead(1, Destructure(PollOptions.timesToRepeat, DefaultTimesToRepeat))

\* A lookup may start on a client that has none in progress.
CanCall ==
  \/ mpc = "idle"
  \/ (returned.kind \in {"return", "throw"} /\ calls < MaxCalls)

\* The lookup without the grace wait: the polling starts at once.
getLatestMessageIdBySubjectNoGrace ==
  /\ CanCall
  /\ \E m \in Methods, em \in Emails, subj \in Subjects :
       /\ method' = m
       /\ email' = em
       /\ subject' = subj
  /\ calls' = calls + 1
  /\ prev' = returned
  /\ messageId' = FreshMessageId(messageId)
  /\ StartPolling
  /\ requests' = <<Get(ListingUrl)>>
  /\ mpc' = "Polling"
  /\ returned' = [kind |-> "pending", val |-> Undefined]
  /\ UNCHANGED <<cbResult, settled, history, elapsed, lastResponse>>
  /\ UNCHANGED <<concVars, testVars>>

\* getLatestMessageIdBySubject(email, subject) is called, directly or by
\* getLatestMessageTextBySubject / getLatestMessageHTMLBySubject (m tells
\* which): lines 72-75, up to the await of wait(5_000).  The locals of the
\* call are new.
Lookup(m, em, subj) ==
  /\ method' = m
  /\ email' = em
  /\ subject' = subj
  /\ calls' = calls + 1
  /\ prev' = returned
  /\ messageId' = FreshMessageId(messageId)
  /\ mpc' = "AwaitingDelivery"
  /\ returned' = [kind |-> "pending", val |-> Undefined]
  /\ log' = <<"wait">>
  /\ elapsed' = 0
  /\ requests' = <<>>
  /\ history' = <<>>
  /\ lastResponse' = [ok |-> FALSE, data |-> <<>>]
  /\ pc' = "idle"
  /\ cbToPerform' = "probeA"
  /\ options' = [timesToRepeat |-> Omitted, timeout |-> Omitted]
  /\ timesToRepeat' = DefaultTimesToRepeat
  /\ timeout' = DefaultTimeout
  /\ i' = 0
  /\ cbError' = Null
  /\ cbResult' = Undefined
  /\ settled' = [kind |-> "none", val |-> Undefined]

\* A caller calls one of the three lookup methods.
getLatestMessageIdBySubject ==
  /\ CanCall
  /\ \E m \in Methods, em \in Emails, subj \in Subjects : Lookup(m, em, subj)
  /\ UNCHANGED <<concVars, testVars>>

\* The grace wait is over: retryUntil is called and the probe invoked.
graceElapses ==
  /\ mpc = "AwaitingDelivery"
  /\ elapsed' = elapsed + SetTimeoutDelay(GraceMs)
  /\ StartPolling
  /\ AfterRetryStep
  /\ UNCHANGED <<cbResult, history>>
  /\ UNCHANGED <<method, email, subject, messageId, lastResponse, calls, prev>>
  /\ UNCHANGED <<concVars, testVars>>

\* getAllMessages() settles and the probe runs to its end (lines 79-91);
\* retryUntil goes on from the probe's outcome.
listingSettles ==
  /\ mpc = "Polling"
  /\ pc = "awaitCb"
  /\ \E res \in ListingResults :
       /\ lastResponse' = res
       /\ messageId' = ProbeMessageId(res, email, subject, messageId)
       /\ history' = Append(history, ProbeOutcome(res, email, subject))
       /\ OnSettled(ProbeOutcome(res, email, subject))
  /\ AfterRetryStep
  /\ UNCHANGED <<cbToPerform, options, timesToRepeat, timeout, elapsed>>
  /\ UNCHANGED <<method, email, subject, calls, prev>>
  /\ UNCHANGED <<concVars, testVars>>

\* The pause of the retry loop of the lookup is over.
pollPauseElapses ==
  /\ mpc = "Polling"
  /\ pc = "awaitWait"
  /\ elapsed' = elapsed + SetTimeoutDelay(timeout)
  /\ AfterPause(cbError)
  /\ AfterRetryStep
  /\ UNCHANGED <<cbToPerform, options, timesToRepeat, timeout, cbResult, history>>
  /\ UNCHANGED <<method, email, subject, messageId, lastResponse, calls, prev>>
  /\ UNCHANGED <<concVars, testVars>>

\* The body request settles, and is sent again when it failed.
bodySettlesRetrying ==
  /\ mpc = "Found"
  /\ returned.kind = "pending"
  /\ \E ok \in BOOLEAN :
       IF ok
         THEN /\ returned' =
                   [kind |-> "return",
                    val |-> BodyResponse(messageId, BodyVariant(method))]
              /\ UNCHANGED requests
         ELSE /\ requests' = Append(requests, requests[Len(requests)])
              /\ UNCHANGED returned
  /\ UNCHANGED retryVars
  /\ UNCHANGED <<mpc, method, email, subject, messageId, lastResponse, calls, prev>>
  /\ UNCHANGED <<concVars, testVars>>

\* The body request of getMessageTextById / getMessageHTMLById settles.
bodySettles ==
  /\ mpc = "Found"
  /\ returned.kind = "pending"
  /\ \E ok \in BOOLEAN :
       returned' =
         IF ok
           THEN [kind |-> "return",
                 val |-> BodyResponse(messageId, BodyVariant(method))]
           ELSE [kind |-> "throw", val |-> HttpError]
  /\ UNCHANGED retryVars
  /\ UNCHANGED <<mpc, method, email, subject, messageId, requests, lastResponse,
                 calls, prev>>
  /\ UNCHANGED <<concVars, testVars>>

MailNext ==
  \/ getLatestMessageIdBySubject
  \/ graceElapses
  \/ listingSettles
  \/ pollPauseElapses
  \/ bodySettles

MailSpec == Init /\ [][MailNext]_vars

\* ------------------------------------------------------------- the tests
\* Largest number of running instances DescribeInstances returns.
MaxInstances == 2

\* `error instanceof Error`
IsError(x) == x.t \in {"Error", "TypeError", "AssertionError", "NotFoundException"}

\* Arguments of the lookup of the tests: the configured address, and
\* 'AWS Notification Message'.
MailtrapEmail == <<"user@mail.io">>
NotificationSubject == <<"AWS Notification Message">>

\* How a test or hook ends.
Passed == [kind |-> "passed", val |-> Undefined]
Failed(error) == [kind |-> "failed", val |-> error]

\* What leaves a try block `await request; throw afterwards`: the rejection
\* of the request, or else what is thrown after it.
TryThrows(awaited, afterwards) ==
  IF awaited.kind \in {"throw", "reject"} THEN awaited.val ELSE afterwards

\* sns.spec.ts 373-376: `catch (error) { if (error instanceof Error)
\* log(error.message); log(...) }`: nothing is thrown again.
MochaCatch(error) == Passed

\* sns.spec.ts 535-537, 946-948: `catch (error) { if (error instanceof Error)
\* throw new Error(`${error}`) }`.
JestCatch(error) ==
  IF IsError(error) THEN Failed(NewError(String(error))) ELSE Passed

\* expect.fail(message) throws chai's AssertionError.
ExpectFail(message) == [t |-> "AssertionError", v |-> message]

StillReceives == <<"The unsubscribed user still receives notifications">>
StillExists == <<"Subscription still exists.">>

\* The replies to the POST of an image: 200 with a numeric id, 200 without,
\* and a rejected request.
PostReplies ==
  {[kind |-> "resolve", val |-> [t |-> "object", v |-> <<"200", "number">>]],
   [kind |-> "resolve", val |-> [t |-> "object", v |-> <<"200", "undefined">>]],
   [kind |-> "reject", val |-> HttpError]}

\* The replies of SNS to GetSubscriptionAttributes: the attributes, or the
\* rejection for a subscription that does not exist.
AttributesReplies ==
  {[kind |-> "resolve", val |-> Obj],
   [kind |-> "reject",
    val |-> [t |-> "NotFoundException", v |-> <<"Subscription does not exist">>]]}

\* The two tests 'the unsubscribed user does not receive further
\* notifications'.
UnsubscribedTests == {"mochaUnsubscribed", "jestUnsubscribed"}

\* The test is run: up to the await of axios.post.
unsubscribedTest ==
  /\ tpc = "idle"
  /\ \E t \in UnsubscribedTests : test' = t
  /\ tpc' = "awaitPost"
  /\ UNCHANGED <<reply, ec2IpAddress, deployedInstances, verdict>>
  /\ UNCHANGED <<retryVars, mailVars, concVars>>

\* axios.post settles; after the two expects the try block is entered and
\* getLatestMessageTextBySubject(mailtrapEmail, subject) is called.
postSettles ==
  /\ tpc = "awaitPost"
  /\ \E r \in PostReplies :
       /\ reply' = r
       /\ CASE r.kind = "reject" ->
                 /\ tpc' = "done"
                 /\ verdict' = Failed(r.val)
                 /\ UNCHANGED <<retryVars, mailVars>>
            [] r.kind = "resolve" /\ r.val.v # <<"200", "number">> ->
                 /\ tpc' = "done"
                 /\ verdict' = Failed(ExpectFail(<<"expected ", r.val.v[2], " to be a number">>))
                 /\ UNCHANGED <<retryVars, mailVars>>
            [] OTHER ->
                 /\ tpc' = "awaitLookup"
                 /\ Lookup("text", MailtrapEmail, NotificationSubject)
                 /\ UNCHANGED verdict
  /\ UNCHANGED <<test, ec2IpAddress, deployedInstances, concVars>>

\* The lookup has settled and the test runs to its end: the throw after the
\* await (sns.spec.ts 372, 945) and the catch block.
unsubscribedTestEnds ==
  /\ tpc = "awaitLookup"
  /\ returned.kind \in {"return", "throw"}
  /\ tpc' = "done"
  /\ verdict' =
       IF test = "mochaUnsubscribed"
         THEN MochaCatch(TryThrows(returned, ExpectFail(StillReceives)))
         ELSE JestCatch(TryThrows(returned, NewError(StillReceives)))
  /\ UNCHANGED <<test, reply, ec2IpAddress, deployedInstances>>
  /\ UNCHANGED <<retryVars, mailVars, concVars>>

\* 'should subscribe and unsubscribe a user', its steps up to the
\* Unsubscribe call done (sns.spec.ts 472-525): the await of line 528.
subscribeTest ==
  /\ tpc = "idle"
  /\ test' = "jestSubscribeUnsubscribe"
  /\ tpc' = "awaitUnsubscribe"
  /\ UNCHANGED <<reply, ec2IpAddress, deployedInstances, verdict>>
  /\ UNCHANGED <<retryVars, mailVars, concVars>>

\* Unsubscribe settles; GetSubscriptionAttributes is sent in the try block.
unsubscribeSettles ==
  /\ tpc = "awaitUnsubscribe"
  /\ \E ok \in BOOLEAN :
       IF ok
         THEN /\ tpc' = "awaitGetAttributes"
              /\ UNCHANGED verdict
         ELSE /\ tpc' = "done"
              /\ verdict' = Failed(HttpError)
  /\ UNCHANGED <<test, reply, ec2IpAddress, deployedInstances>>
  /\ UNCHANGED <<retryVars, mailVars, concVars>>

\* GetSubscriptionAttributes settles: the throw of line 533 and the catch
\* block.
getSubscriptionAttributesSettles ==
  /\ tpc = "awaitGetAttributes"
  /\ \E r \in AttributesReplies :
       /\ reply' = r
       /\ verdict' = JestCatch(TryThrows(r, NewError(StillExists)))
  /\ tpc' = "done"
  /\ UNCHANGED <<test, ec2IpAddress, deployedInstances>>
  /\ UNCHANGED <<retryVars, mailVars, concVars>>

\* The running instances DescribeInstances may return, with or without a
\* public address.
Instances ==
  {[InstanceId |-> "i-1", PublicIpAddress |-> Str(<<"3.3.3.3">>)],
   [InstanceId |-> "i-2", PublicIpAddress |-> Undefined]}
InstanceLists ==
  UNION {[1..n -> Instances] : n \in 0..MaxInstances}

\* `reservation.Instances.map((instance) => ({ id, type:
\* instance.PublicIpAddress ? 'public' : 'private', ..., os: instance }))`
Deployed(instance) ==
  [id |-> instance.InstanceId,
   type |-> IF Truthy(instance.PublicIpAddress) THEN "public" ELSE "private",
   os |-> instance]
DeployedList(list) == [k \in 1..Len(list) |-> Deployed(list[k])]

\* `deployedInstances.find((instance) => instance.type === 'public')`: the
\* position of the first public instance, 0 for undefined.
FindPublic(deployed) ==
  IF \E k \in 1..Len(deployed) : deployed[k].type = "public"
    THEN CHOOSE k \in 1..Len(deployed) :
           /\ deployed[k].type = "public"
           /\ \A j \in 1..(k - 1) : deployed[j].type # "public"
    ELSE 0

\* `ec2Instance.os` with ec2Instance undefined.
ReadOfUndefined ==
  [t |-> "TypeError", v |-> <<"Cannot read properties of undefined (reading 'os')">>]
NoPublicInstance == NewError(<<"No public EC2 instance found">>)

\* The hooks that look up the public instance: beforeAll of 'DynamoDB
\* regression testing' (serverless.spec.ts 106-141), of 'Application
\* functional validation' (201-233), of 'Serverless S3 regression testing'
\* (491-520), and the hooks of sns.spec.ts (before, 66-95; beforeAll,
\* 640-669).
Setups == {"dynamoDB", "appValidation", "s3", "snsMocha", "snsJest"}

\* The hooks whose destructuring of ec2Instance.os comes before their check
\* (serverless.spec.ts 132-134, 514-516).
ReadsBeforeCheck(setup) == setup \in {"dynamoDB", "s3"}

\* From the find to the next await: the public address is taken and the
\* check made, in the order of the hook.
FindAndCheck(setup, deployed) ==
  LET found == FindPublic(deployed)
  IN IF found = 0
       THEN /\ verdict' =
                 IF ReadsBeforeCheck(setup)
                   THEN Failed(ReadOfUndefined)
                   ELSE Failed(NoPublicInstance)
            /\ tpc' = "done"
            /\ UNCHANGED ec2IpAddress
       ELSE /\ ec2IpAddress' = deployed[found].os.PublicIpAddress
            /\ tpc' = "setupGoesOn"
            /\ UNCHANGED verdict

\* A hook is run: up to the await of DescribeInstances.
suiteSetup ==
  /\ tpc = "idle"
  /\ \E s \in Setups : test' = s
  /\ tpc' = "awaitDescribeInstances"
  /\ UNCHANGED <<reply, ec2IpAddress, deployedInstances, verdict>>
  /\ UNCHANGED <<retryVars, mailVars, concVars>>

\* DescribeInstances settles: the hook runs up to its next await.
describeInstancesSettles ==
  /\ tpc = "awaitDescribeInstances"
  /\ \E list \in InstanceLists :
       /\ deployedInstances' = DeployedList(list)
       /\ FindAndCheck(test, DeployedList(list))
  /\ UNCHANGED <<test, reply>>
  /\ UNCHANGED <<retryVars, mailVars, concVars>>

TestNext ==
  \/ unsubscribedTest
  \/ postSettles
  \/ graceElapses
  \/ listingSettles
  \/ pollPauseElapses
  \/ bodySettles
  \/ unsubscribedTestEnds
  \/ subscribeTest
  \/ unsubscribeSettles
  \/ getSubscriptionAttributesSettles
  \/ suiteSetup
  \/ describeInstancesSettles

TestSpec == Init /\ [][TestNext]_vars

\* ------------------------------------------------------------ properties
\* What the formulas below read off the state.
Count(ev) == Cardinality({j \in 1..Len(log) : log[j] = ev})
Invocations == Count("cb")
Waits == Count("wait")
TruthyAt(k) == history[k].kind = "resolve" /\ Truthy(history[k].val)
NoSuccess == \A k \in 1..Len(history) : ~TruthyAt(k)
RejectedAt(k) == history[k].kind = "reject"
Message == settled.val.v
IsRetryExhausted ==
  /\ settled.kind = "throw"
  /\ settled.val.t = "Error"
  /\ Len(Message) >= 1
  /\ Message[1] = "RetryUntil failed "
  /\ Contains(Message, <<"Condition wasn't successful:\n">>)

\* C1: with timesToRepeat >= 1, as soon as an attempt k <= timesToRepeat
\* resolves truthy, retryUntil has resolved with exactly that value after
\* exactly k invocations of the action, whatever the earlier attempts did
\* (rejected or resolved falsy), and k = timesToRepeat included.
C1_SuccessOnAttemptK ==
  \A k \in 1..Len(history) :
    (TruthyAt(k) /\ timesToRepeat >= 1 /\ k <= timesToRepeat) =>
      /\ k = Len(history)
      /\ Invocations = k
      /\ pc = "resolved"
      /\ settled = [kind |-> "return", val |-> history[k].val]

\* C1 witness: [reject, resolve(false), resolve(true)] with timesToRepeat = 3,
\* timeout = 0: resolved with true after 3 invocations.
C1_Witness ==
  /\ pc = "resolved"
  /\ timesToRepeat = 3
  /\ timeout = 0
  /\ Len(history) = 3
  /\ RejectedAt(1)
  /\ history[2] = [kind |-> "resolve", val |-> False]
  /\ history[3] = [kind |-> "resolve", val |-> True]
  /\ settled.val = True
  /\ Invocations = 3

\* C2: with timesToRepeat >= 1, while every attempt resolves falsy or rejects
\* the call never resolves and never invokes the action more than
\* timesToRepeat times; once attempt timesToRepeat has failed no further
\* invocation happens, and the call fails, with the 'RetryUntil failed ...'
\* error, after exactly timesToRepeat invocations.
C2_ExhaustionAfterLimit ==
  (pc # "idle" /\ timesToRepeat >= 1 /\ NoSuccess) =>
    /\ pc # "resolved"
    /\ Invocations <= timesToRepeat
    /\ (Len(history) = timesToRepeat => pc \in {"awaitWait", "rejected"})
    /\ (pc = "rejected" =>
          /\ Invocations = timesToRepeat
          /\ Len(history) = timesToRepeat
          /\ IsRetryExhausted)

\* C2 witness: always resolve(false), timesToRepeat = 2, timeout = DelayMs:
\* failed after exactly 2 invocations and at least DelayMs of pause.
C2_Witness ==
  /\ pc = "rejected"
  /\ timesToRepeat = 2
  /\ timeout = DelayMs
  /\ history =
       <<[kind |-> "resolve", val |-> False], [kind |-> "resolve", val |-> False]>>
  /\ Invocations = 2
  /\ elapsed >= DelayMs

\* C3: a rejection of the action never leaves retryUntil: after a rejected
\* attempt that is not the last the loop goes on (it pauses or invokes the
\* action again), and whenever retryUntil has failed, the error is the
\* 'RetryUntil failed ...' error and attempt timesToRepeat has completed.
C3_RejectionContained ==
  /\ pc = "rejected" =>
       /\ IsRetryExhausted
       /\ i = timesToRepeat
       /\ Len(history) = timesToRepeat
  /\ \A k \in 1..Len(history) :
       (RejectedAt(k) /\ k < timesToRepeat) =>
         \/ Invocations > k
         \/ (k = Len(history) /\ pc = "awaitWait")

\* C3 witness: a call whose first attempt rejected went on to a later
\* attempt and ended exhausted.
C3_Witness ==
  /\ pc = "rejected"
  /\ Len(history) >= 2
  /\ RejectedAt(1)
  /\ Truthy(history[1].val)

\* C4 as stated: on exhaustion with the final attempt rejected, the message
\* contains the string form of that attempt's error and the text of the
\* retried action.
C4_AsStated ==
  (pc = "rejected" /\ RejectedAt(Len(history))) =>
    /\ Contains(Message, String(history[Len(history)].val))
    /\ Contains(Message, FunctionSource(cbToPerform))

\* C4 amended: on exhaustion with the final attempt rejected with a truthy
\* reason (an Error object), the message contains 'with error: ' followed by
\* the string form of that reason, and the text of the retried action; a
\* falsy reason (undefined) is left out of the message, which still contains
\* the text of the action.
C4_LastErrorInMessage ==
  (pc = "rejected" /\ RejectedAt(Len(history))) =>
    LET reason == history[Len(history)].val IN
      /\ Contains(Message, FunctionSource(cbToPerform))
      /\ Truthy(reason) =>
           Contains(Message, <<"with error: ">> \o String(reason) \o <<"\n">>)
      /\ ~Truthy(reason) => ~Contains(Message, <<"with error: ">>)

\* C4 witness: exhausted on a final attempt that rejected with an Error.
C4_Witness ==
  /\ pc = "rejected"
  /\ RejectedAt(Len(history))
  /\ history[Len(history)].val = NewError(<<"not found">>)
  /\ Contains(Message, <<"with error: ", "Error: ", "not found", "\n">>)

\* The latest attempt that rejected, 0 when none did.
LatestRejection ==
  LET ks == {k \in 1..Len(history) : RejectedAt(k)} IN
    IF ks = {} THEN 0 ELSE CHOOSE k \in ks : \A m \in ks : m <= k

\* C5: on exhaustion, if some attempt rejected (with an Error object), the
\* message embeds the error of the latest rejecting attempt, also when the
\* final attempt itself resolved falsy.
C5_LatestErrorInMessage ==
  (pc = "rejected" /\ LatestRejection > 0
     /\ Truthy(history[LatestRejection].val)) =>
    Contains(Message, String(history[LatestRejection].val))

\* C6: a call with timesToRepeat < 1 that has completed has failed with an
\* error; it has not resolved.
C6_NonPositiveLimitFails ==
  (pc \in {"resolved", "rejected"} /\ timesToRepeat < 1) =>
    /\ pc = "rejected"
    /\ settled.kind = "throw"

\* C7: in a call with timesToRepeat < 1 the action is never invoked and no
\* pause is taken.
C7_NonPositiveLimitNoAttempt ==
  (pc # "idle" /\ timesToRepeat < 1) =>
    /\ Invocations = 0
    /\ Waits = 0
    /\ history = <<>>
    /\ elapsed = 0
    /\ pc \notin {"awaitCb", "awaitWait"}

\* C7 witness: a completed call with timesToRepeat = 0 and a positive timeout.
C7_Witness ==
  /\ pc # "idle"
  /\ timesToRepeat = 0
  /\ timeout = DelayMs
  /\ Invocations = 0

\* C8 as stated: with timeout > 0 an exhausted call has taken exactly
\* timesToRepeat - 1 pauses (none after the final attempt).
C8_AsStated ==
  (pc = "rejected" /\ timeout > 0) => Waits = timesToRepeat - 1

\* The attempts that have settled falsy (rejected or resolved falsy).
FalsyAttempts == Cardinality({k \in 1..Len(history) : ~TruthyAt(k)})

\* C8 amended: with timeout > 0 a pause is taken after every falsy attempt,
\* the final one included, and after no truthy one: the error of exhaustion
\* is raised only once the pause after attempt timesToRepeat has elapsed, so
\* an exhausted call has taken exactly timesToRepeat pauses.
C8_PauseAfterEveryFalsyAttempt ==
  (pc # "idle" /\ timeout > 0 /\ timesToRepeat >= 1) =>
    /\ Waits = FalsyAttempts
    /\ (pc = "rejected" =>
          /\ Waits = timesToRepeat
          /\ log[Len(log)] = "wait"
          /\ elapsed = timesToRepeat * timeout)

\* C8 witness: an exhausted call with a positive timeout and its pauses.
C8_Witness ==
  /\ pc = "rejected"
  /\ timeout = DelayMs
  /\ timesToRepeat >= 2
  /\ Waits = timesToRepeat

\* The pauses that have elapsed.
CompletedWaits == IF pc = "awaitWait" THEN Waits - 1 ELSE Waits

\* C9: with timeout = D > 0, exactly one pause, of D ms, lies between any two
\* consecutive invocations of the action, so a call in which every attempt
\* failed has paused for at least (timesToRepeat - 1) * D ms in total.
C9_OnePauseBetweenAttempts ==
  (pc # "idle" /\ timeout > 0) =>
    /\ (Len(log) >= 1 => log[1] = "cb")
    /\ \A j \in 2..Len(log) : log[j] # log[j - 1]
    /\ elapsed = CompletedWaits * timeout
    /\ (pc = "rejected" => elapsed >= (timesToRepeat - 1) * timeout)

\* C9 witness: three failed attempts with a positive timeout.
C9_Witness ==
  /\ pc = "rejected"
  /\ timeout = DelayMs
  /\ timesToRepeat = 3
  /\ NoSuccess
  /\ elapsed >= 2 * DelayMs

\* C10: with timeout = 0, given or by default, wait is never called: the
\* calls made are invocations of the action only and no time is paused.
C10_NoPauseWhenTimeoutZero ==
  (pc # "idle" /\ timeout = 0) =>
    /\ Waits = 0
    /\ pc # "awaitWait"
    /\ elapsed = 0
    /\ \A j \in 1..Len(log) : log[j] = "cb"

\* C10 witness: an exhausted call of several attempts with the timeout
\* omitted.
C10_Witness ==
  /\ pc = "rejected"
  /\ ~options.timeout.given
  /\ timeout = 0
  /\ Invocations >= 2
  /\ Waits = 0

\* C11: for any timeout, once an attempt has resolved truthy the call is
\* resolved: the last call made is that invocation of the action, no pause
\* was started after it and none is pending; the pauses taken are those after
\* the earlier, falsy attempts only.
C11_ResolvesImmediately ==
  \A k \in 1..Len(history) :
    (TruthyAt(k) /\ timesToRepeat >= 1) =>
      /\ pc = "resolved"
      /\ log[Len(log)] = "cb"
      /\ Invocations = k
      /\ Waits = (IF timeout # 0 THEN k - 1 ELSE 0)
      /\ elapsed = Waits * timeout

\* C11 witness: with a positive timeout the second attempt resolved truthy
\* and the call resolved after the single pause between the two attempts.
C11_Witness ==
  /\ pc = "resolved"
  /\ timeout = DelayMs
  /\ Len(history) = 2
  /\ TruthyAt(2)
  /\ log = <<"cb", "wait", "cb">>
  /\ elapsed = DelayMs

\* C12: a call without options, or with a field of the options left out,
\* runs with timesToRepeat = 3 for the missing limit and timeout = 0 for the
\* missing timeout; with both missing an always-failing action is invoked
\* exactly 3 times, with no pause, before the call fails.
C12_Defaults ==
  pc # "idle" =>
    /\ ~options.timesToRepeat.given => timesToRepeat = 3
    /\ options.timesToRepeat.given => timesToRepeat = options.timesToRepeat.n
    /\ ~options.timeout.given => (timeout = 0 /\ Waits = 0 /\ elapsed = 0)
    /\ options.timeout.given => timeout = options.timeout.n
    /\ (~options.timesToRepeat.given /\ NoSuccess) =>
         /\ Invocations <= 3
         /\ pc # "resolved"
         /\ (pc = "rejected" => Invocations = 3)

\* C12 witness: called without options, the action failed 3 times and the
\* call is exhausted without a pause.
C12_Witness ==
  /\ pc = "rejected"
  /\ ~options.timesToRepeat.given
  /\ ~options.timeout.given
  /\ Invocations = 3
  /\ Len(history) = 3
  /\ Waits = 0

\* ------------------------------------------- properties of the mail lookup
\* The criteria of the lookup, as the specification words them: the
\* recipient field contains the address and the subject is equal.
MeetsCriteria(message) ==
  Contains(message.to_email, email) /\ message.subject = subject
MatchingPositions ==
  {j \in 1..Len(lastResponse.data) : MeetsCriteria(lastResponse.data[j])}
FirstMatchingPosition ==
  CHOOSE j \in MatchingPositions : \A m \in MatchingPositions : j <= m
ListingRequests ==
  Cardinality({j \in 1..Len(requests) : requests[j].url = ListingUrl})
BodyRequests == Len(requests) - ListingRequests
\* The waits (grace wait and retry pauses) that are over.
WaitsOver ==
  IF mpc = "AwaitingDelivery" \/ pc = "awaitWait" THEN Waits - 1 ELSE Waits

\* C13: in every lookup the grace wait of 5000 ms is the first call made and
\* is over before any listing request is issued: none is issued while the
\* lookup awaits delivery.
C13_GraceBeforeFirstListing ==
  mpc # "idle" =>
    /\ log[1] = "wait"
    /\ mpc = "AwaitingDelivery" =>
         (requests = <<>> /\ Invocations = 0 /\ elapsed = 0)
    /\ requests # <<>> => elapsed >= 5000

\* C13 witness: the first listing request is out, right after the grace wait.
C13_Witness ==
  /\ mpc = "Polling"
  /\ requests = <<Get(ListingUrl)>>
  /\ log = <<"wait", "cb">>
  /\ elapsed = 5000

\* C14: a lookup issues at most 5 listing requests, and at least 1 once it
\* has ended; waits and listing requests alternate, each wait lasting
\* 5000 ms, so one pause of 5000 ms lies between consecutive listing
\* requests; the listing whose response had a match is the last one issued.
C14_ListingRequestsBounded ==
  mpc # "idle" =>
    /\ ListingRequests <= 5
    /\ ListingRequests = Invocations
    /\ mpc \in {"Found", "NotFoundExhausted"} => ListingRequests >= 1
    /\ \A j \in 2..Len(log) : log[j] # log[j - 1]
    /\ elapsed = WaitsOver * 5000
    /\ \A k \in 1..Len(history) :
         TruthyAt(k) => (k = Len(history) /\ ListingRequests = k /\ mpc = "Found")

\* C14 witness: the fifth listing request of a lookup found the message.
C14_Witness ==
  /\ mpc = "Found"
  /\ ListingRequests = 5
  /\ Len(history) = 5
  /\ elapsed = 25000

\* C15: whenever getLatestMessageIdBySubject resolves, the id it returns is a
\* string, the id of a message of the latest listing response whose
\* recipient field contains email and whose subject equals subject.
C15_ReturnsMatchingId ==
  mpc = "Found" =>
    /\ lastResponse.ok
    /\ messageId.t = "string"
    /\ \E j \in 1..Len(lastResponse.data) :
         /\ MeetsCriteria(lastResponse.data[j])
         /\ lastResponse.data[j].id = messageId.v
    /\ method = "id" => returned = [kind |-> "return", val |-> messageId]

\* C15 witness: the response listed a message for another recipient before
\* one whose recipient field contains the address; the latter's id is
\* returned.
C15_Witness ==
  /\ mpc = "Found"
  /\ method = "id"
  /\ Len(lastResponse.data) = 2
  /\ lastResponse.data[1].id = <<"103">>
  /\ lastResponse.data[2].id = <<"102">>
  /\ returned.val = Str(<<"102">>)

\* C16: when several messages of the response match, the one that comes
\* first in the order of the response is selected.
C16_FirstMatchInResponseOrder ==
  mpc = "Found" =>
    /\ MatchingPositions # {}
    /\ messageId = Str(lastResponse.data[FirstMatchingPosition].id)

\* C16 witness: two matches, listed as 102 then 101; 102 is selected.
C16_Witness ==
  /\ mpc = "Found"
  /\ Cardinality(MatchingPositions) = 2
  /\ lastResponse.data[1].id = <<"102">>
  /\ lastResponse.data[2].id = <<"101">>
  /\ messageId = Str(<<"102">>)

\* The text of the probe's error for the criteria of the lookup.
NotFoundText ==
  <<"Email sent to \"">> \o email \o <<"\" with subject \"">> \o subject
    \o <<"\" was not found in Mailtrap">>

\* C17: when a lookup ends without a match and its last listing response
\* held none, the called method fails with the 'RetryUntil failed ...' error
\* of retryUntil, whose message includes the 'was not found in Mailtrap'
\* text of the last attempt; a lookup that fails issues no body request.
C17_ExhaustedLookupFails ==
  mpc = "NotFoundExhausted" =>
    /\ returned.kind = "throw"
    /\ returned.val = settled.val
    /\ IsRetryExhausted
    /\ BodyRequests = 0
    /\ ListingRequests = 5
    /\ lastResponse.ok =>
         Contains(Message, <<"with error: ", "Error: ">> \o NotFoundText)

\* C17 witness: getLatestMessageTextBySubject failed after 5 listing
\* responses, none with a match.
C17_Witness ==
  /\ mpc = "NotFoundExhausted"
  /\ method = "text"
  /\ Len(history) = 5
  /\ \A k \in 1..5 : history[k].val # HttpError
  /\ returned.kind = "throw"

\* C18: as soon as a listing response holds a matching message the lookup has
\* found it: when that is the k-th response (k <= 5, the earlier ones
\* without a match or failed), exactly k listing requests were issued, and
\* the lookup resolves to the first match.
C18_FoundOnKthListing ==
  (mpc # "idle" /\ lastResponse.ok /\ MatchingPositions # {}) =>
    /\ mpc = "Found"
    /\ Len(history) <= 5
    /\ ListingRequests = Len(history)
    /\ \A k \in 1..(Len(history) - 1) : RejectedAt(k)
    /\ messageId = Str(lastResponse.data[FirstMatchingPosition].id)
    /\ method = "id" => returned.kind = "return"

\* C18 witness: the message appeared in the third listing response.
C18_Witness ==
  /\ mpc = "Found"
  /\ Len(history) = 3
  /\ ListingRequests = 3
  /\ MatchingPositions # {}

\* C19: a lookup that fails for want of a match has spent 30000 ms in its
\* waits: the grace wait of 5000 ms and the 5 pauses of 5000 ms of the retry
\* loop.
C19_WorstCaseWait ==
  mpc = "NotFoundExhausted" =>
    /\ elapsed = 30000
    /\ elapsed = GraceMs + PollTimesToRepeat * PollTimeout
    /\ Waits = 6
    /\ Invocations = 5

\* C19 witness: five listing responses without a match, lookup failed.
C19_Witness ==
  /\ mpc = "NotFoundExhausted"
  /\ lastResponse.ok
  /\ \A k \in 1..Len(history) : history[k].val # HttpError
  /\ elapsed = 30000

\* The transitions of one lookup.
LookupTransitions ==
  {<<"AwaitingDelivery", "Polling">>, <<"Polling", "Found">>,
   <<"Polling", "NotFoundExhausted">>}

\* C20: a lookup starts in AwaitingDelivery, from no other state than the
\* end of the lookup before it, and moves AwaitingDelivery -> Polling ->
\* (Found | NotFoundExhausted) only; nothing of an earlier lookup is kept:
\* messageId is undefined from the start of a lookup until its own probe
\* matches, and the id of a found lookup is the first match of its own
\* latest listing response.
C20_StateMachineNoRetention ==
  /\ [][/\ calls' = calls => (mpc' = mpc \/ <<mpc, mpc'>> \in LookupTransitions)
        /\ calls' # calls =>
             /\ mpc \in {"idle", "Found", "NotFoundExhausted"}
             /\ mpc' = "AwaitingDelivery"
             /\ messageId' = Undefined
             /\ requests' = <<>>]_vars
  /\ [](/\ mpc \in {"idle", "AwaitingDelivery", "Polling", "NotFoundExhausted"} =>
             messageId = Undefined
        /\ mpc = "NotFoundExhausted" => returned.kind = "throw"
        /\ mpc = "Found" =>
             /\ ListingRequests >= 1
             /\ lastResponse.ok
             /\ MatchingPositions # {}
             /\ messageId = Str(lastResponse.data[FirstMatchingPosition].id))

\* C20 witness: the lookup after one that returned an id found nothing and
\* holds no id.
C20_Witness ==
  /\ calls = 2
  /\ prev.kind = "return"
  /\ prev.val.t = "string"
  /\ mpc = "NotFoundExhausted"
  /\ messageId = Undefined

\* The id of the first message of the latest response that meets the
\* criteria, and the URL and response of its body in a variant.
FoundId == lastResponse.data[FirstMatchingPosition].id
ExpectedBodyRequest(ext) ==
  [method |-> "GET",
   url |-> <<"/inboxes/", "${mailtrapInboxId}", "/messages", "/">> \o FoundId
             \o <<"/body.", ext>>]
ExpectedBody(ext) == [t |-> "object", v |-> <<"body.", ext, " of ">> \o FoundId]

\* C21: once its lookup has found a message, getLatestMessageTextBySubject
\* has issued exactly one body request, for body.txt of the id this lookup
\* found, and getLatestMessageHTMLBySubject exactly one, for body.html; the
\* method resolves to the response of that request.  No body request is
\* issued otherwise.
C21_OneBodyRequestForFoundId ==
  /\ (mpc # "Found" \/ method = "id") => BodyRequests = 0
  /\ (mpc = "Found" /\ method = "text") =>
       /\ BodyRequests = 1
       /\ requests[Len(requests)] = ExpectedBodyRequest("txt")
       /\ returned.kind = "return" => returned.val = ExpectedBody("txt")
  /\ (mpc = "Found" /\ method = "html") =>
       /\ BodyRequests = 1
       /\ requests[Len(requests)] = ExpectedBodyRequest("html")
       /\ returned.kind = "return" => returned.val = ExpectedBody("html")

\* C21 witness: getLatestMessageHTMLBySubject resolved to the HTML body of
\* message 102, found on the second listing.
C21_Witness ==
  /\ mpc = "Found"
  /\ method = "html"
  /\ Len(history) = 2
  /\ messageId = Str(<<"102">>)
  /\ returned.kind = "return"
  /\ returned.val.v = <<"body.", "html", " of ", "102">>

C27_FailedListingIsAnAttempt ==
  /\ \A k \in 1..Len(history) :
       (history[k].val = HttpError /\ k < 5) =>
         /\ Waits >= k + 1
         /\ \/ ListingRequests > k
            \/ (k = Len(history) /\ pc = "awaitWait" /\ mpc = "Polling")
  /\ ListingRequests <= 5
  /\ Len(history) <= ListingRequests
  /\ mpc # "Found" => returned.val # HttpError
  /\ (mpc = "NotFoundExhausted" /\ ~lastResponse.ok) =>
       /\ Len(history) = 5
       /\ returned.kind = "throw"
       /\ returned.val = settled.val
       /\ IsRetryExhausted
       /\ Contains(Message, <<"with error: ", "Error: ", "Request failed", "\n">>)

\* C27 witness: the first and the fifth listing request failed; the lookup
\* is exhausted.
C27_Witness ==
  /\ mpc = "NotFoundExhausted"
  /\ Len(history) = 5
  /\ history[1].val = HttpError
  /\ ~lastResponse.ok
  /\ ListingRequests = 5

\* C28: when the body request is rejected, the rejection is what the method
\* fails with, not wrapped; the body request was sent once, after the last
\* listing request, and the retry loop, resolved, is not entered again.
C28_BodyFailurePropagates ==
  /\ BodyRequests <= 1
  /\ (mpc = "Found" /\ returned.kind = "throw") =>
       /\ returned.val = HttpError
       /\ BodyRequests = 1
       /\ requests[Len(requests)].url # ListingUrl
       /\ ListingRequests = Len(history)
       /\ pc = "resolved"

\* C28 witness: getLatestMessageHTMLBySubject failed with the error of its
\* body request.
C28_Witness ==
  /\ mpc = "Found"
  /\ method = "html"
  /\ returned = [kind |-> "throw", val |-> HttpError]
  /\ BodyRequests = 1

\* C24: with timesToRepeat >= 1, when every invocation of the action settles
\* and every pause elapses, a call of retryUntil settles, and the action is
\* never invoked more than timesToRepeat times.
C24_Terminates ==
  /\ [](timesToRepeat >= 1 => (Invocations <= timesToRepeat /\ i <= timesToRepeat))
  /\ (pc \in {"awaitCb", "awaitWait"}) ~> (pc \in {"resolved", "rejected"})

\* C24 witness: a call with the largest limit and a pause has settled after
\* its last invocation and its last pause.
C24_Witness ==
  /\ pc = "rejected"
  /\ timesToRepeat = MaxLimit
  /\ Invocations = MaxLimit
  /\ Waits = MaxLimit

\* What a call alone does on the outcomes h of its action, with limit >= 1:
\* it resolves to the first truthy value, or fails after limit falsy
\* attempts with the message that embeds the reason of the last attempt.
AloneMessage(cb, h) ==
  <<"RetryUntil failed ">>
    \o (IF h[Len(h)].kind = "reject" /\ Truthy(h[Len(h)].val)
          THEN <<"with error: ">> \o String(h[Len(h)].val) \o <<"\n">>
          ELSE <<>>)
    \o <<"Condition wasn't successful:\n">> \o <<"async () => ", cb, "()">>
IsTruthyOutcome(o) == o.kind = "resolve" /\ Truthy(o.val)
AsAlone(c) ==
  LET h == c.history
      n == Len(h)
  IN /\ n <= c.timesToRepeat
     /\ \A k \in 1..(n - 1) : ~IsTruthyOutcome(h[k])
     /\ Len(SelectSeq(c.log, LAMBDA e : e = "cb")) =
          (IF c.pc = "awaitCb" THEN n + 1 ELSE n)
     /\ c.pc = "awaitCb" => (c.i = n + 1 /\ c.cbError = Null)
     /\ c.pc = "awaitWait" =>
          /\ c.i = n
          /\ ~IsTruthyOutcome(h[n])
          /\ c.cbError = (IF h[n].kind = "reject" THEN h[n].val ELSE Null)
     /\ c.pc = "resolved" =>
          /\ IsTruthyOutcome(h[n])
          /\ c.settled = [kind |-> "return", val |-> h[n].val]
     /\ c.pc = "rejected" =>
          /\ n = c.timesToRepeat
          /\ ~IsTruthyOutcome(h[n])
          /\ c.settled.kind = "throw"
          /\ c.settled.val.v = AloneMessage(c.cbToPerform, h)

\* C23: with two calls of retryUntil in progress, interleaved at their
\* awaits, each call's counter, error slot, number of invocations, result
\* and error message are those of a call alone on its own outcomes.
C23_CallsDoNotInterfere == AsAlone(Frame) /\ AsAlone(other)

\* C23 witness: both calls were in progress together; one failed after two
\* attempts with its own error in the message, the other resolved on its
\* first attempt.
C23_Witness ==
  /\ pc = "rejected"
  /\ Len(history) = 2
  /\ history[1].kind = "resolve"
  /\ history[2] = [kind |-> "reject", val |-> NewError(<<"boom">>)]
  /\ other.pc = "resolved"
  /\ Len(other.history) = 1
  /\ Len(other.log) = 1
  /\ Len(log) > 2

\* ---------------------------------------------------- properties of tests
\* C25: when the Jest test 'the unsubscribed user does not receive further
\* notifications' has ended after its lookup, it has passed if the lookup
\* failed with the 'RetryUntil failed ...' error, and it has failed only if
\* the lookup found a notification.
C25_ExhaustionPassesJest ==
  (test = "jestUnsubscribed" /\ tpc = "done" /\ returned.kind \in {"return", "throw"}) =>
    /\ mpc = "NotFoundExhausted" => verdict.kind = "passed"
    /\ verdict.kind = "failed" => mpc = "Found"

\* C26: when the Mocha test 'the unsubscribed user does not receive further
\* notifications' has ended after its lookup, it has failed if the lookup
\* succeeded and passed if the lookup failed with the 'RetryUntil failed
\* ...' error.
C26_DeliveryFailsMocha ==
  (test = "mochaUnsubscribed" /\ tpc = "done" /\ returned.kind \in {"return", "throw"}) =>
    /\ returned.kind = "return" => verdict.kind = "failed"
    /\ mpc = "NotFoundExhausted" => verdict.kind = "passed"

\* C29: when 'should subscribe and unsubscribe a user' has ended after
\* GetSubscriptionAttributes settled, it has passed if the request was
\* rejected, and it has failed, with 'Subscription still exists.', if the
\* request resolved.
C29_RejectionPasses ==
  (test = "jestSubscribeUnsubscribe" /\ tpc = "done" /\ reply \in AttributesReplies) =>
    /\ reply.kind = "reject" => verdict.kind = "passed"
    /\ reply.kind = "resolve" =>
         /\ verdict.kind = "failed"
         /\ Contains(verdict.val.v, <<"Subscription still exists.">>)

\* C30: a hook that found no instance with a public address among the
\* running instances has failed with 'No public EC2 instance found'.
C30_NoPublicInstanceReported ==
  (/\ test \in {"dynamoDB", "appValidation", "s3", "snsMocha", "snsJest"}
   /\ tpc \in {"done", "setupGoesOn"}
   /\ \A k \in 1..Len(deployedInstances) :
        deployedInstances[k].os.PublicIpAddress.t = "undefined") =>
    verdict = [kind |-> "failed",
               val |-> [t |-> "Error", v |-> <<"No public EC2 instance found">>]]

====
